---- MODULE Spec2Model ----
(***************************************************************************)
(* The Tauri command analyze_document of src-tauri/src/lib.rs: credential  *)
(* lookup, pdftotext subprocess, prompt assembly, one HTTP POST to the     *)
(* Mistral chat-completions endpoint, unwrapping and parsing of the reply. *)
(*                                                                         *)
(* Text (Rust String / &str) is a sequence of pieces: literal pieces of    *)
(* the source (W), decoded characters (Ch), and, inside JSON text, lexical *)
(* tokens (P, Lit, Num, Str).  format!(..) is concatenation (\o).          *)
(*                                                                         *)
(* One invocation is followed from its call to its return, statement by    *)
(* statement; invocations follow one another.  Other invocations in flight *)
(* on the async runtime touch nothing this one reads except the process    *)
(* environment, which their dotenv() writes: they appear as OtherDotenv.   *)
(* hist and trace record history for the properties; the code has no such  *)
(* variables.                                                              *)
(***************************************************************************)
EXTENDS Integers, Sequences, FiniteSets, TLC

\* ------------------------------------------------------------------ text

\* A literal piece of text.
W(s) == [k |-> "w", s |-> s]
\* One decoded character, by code point.
Ch(cp) == [k |-> "c", cp |-> cp]
\* JSON punctuation: { } [ ] : ,
P(s) == [k |-> "p", s |-> s]
\* JSON literal names: null true false
Lit(s) == [k |-> "lit", s |-> s]
\* A JSON number token, and the decimal rendering of a number in a message.
Num(n) == [k |-> "num", n |-> n]
\* A quoted JSON string token holding the (unescaped) text x.
Str(x) == [k |-> "str", x |-> x]

\* sub occurs in txt as a contiguous run (str::contains).
Contains(txt, sub) ==
    \E i \in 0..(Len(txt) - Len(sub)) :
        \A j \in 1..Len(sub) : txt[i + j] = sub[j]

\* pre is a prefix of txt (str::starts_with).
StartsWith(txt, pre) ==
    /\ Len(pre) <= Len(txt)
    /\ \A j \in 1..Len(pre) : txt[j] = pre[j]

\* ------------------------------------------------------- serde_json::Value

JNull == [t |-> "null"]
JBool(b) == [t |-> "bool", b |-> b]
JNum(n) == [t |-> "num", n |-> n]
JStr(x) == [t |-> "str", x |-> x]
JArr(a) == [t |-> "arr", a |-> a]
\* An object is a map: a set of <<key, value>> pairs with distinct keys.
JObj(o) == [t |-> "obj", o |-> o]

\* A one-word text, used for object keys.
Key(s) == <<W(s)>>

\* Map::insert: a later value for the same key replaces the earlier one.
MapInsert(o, key, v) == {p \in o : p[1] # key} \cup {<<key, v>>}

\* serde_json's Deserializer starts with remaining_depth = 128.
RecursionLimit == 128

\* Words that begin like null / true / false: the parser commits to the
\* literal and reports "expected ident" instead of "expected value".
BeginsLikeLiteral(w) == w \in {"not", "nul", "tru", "fals"}

LitValue(s) ==
    CASE s = "null" -> JNull
      [] s = "true" -> JBool(TRUE)
      [] OTHER -> JBool(FALSE)

IsP(tok, s) == tok.k = "p" /\ tok.s = s

\* serde_json's recursive descent, with its call stack made explicit: one frame
\* per array or object being read (SeqAccess / MapAccess), holding what was
\* read so far and what the grammar expects next.  remaining_depth is
\* RecursionLimit - Len(stack).
Frame(kind) ==
    [kind |-> kind, phase |-> "first", arr |-> <<>>, obj |-> {}, key |-> <<>>]

\* Deserializer::new: nothing read, a value expected.
ParseStart ==
    [stack |-> <<>>, phase |-> "start", v |-> JNull, ok |-> TRUE, code |-> "", pos |-> 0]

ParseErr(st, code, i) == [st EXCEPT !.ok = FALSE, !.code = code, !.pos = i]

\* A value has been read: it is the document (empty stack), the next element
\* of the array being read, or the value of the pending key of the object
\* being read.
Deliver(st, v) ==
    IF st.stack = <<>> THEN [st EXCEPT !.v = v, !.phase = "end"]
    ELSE LET n == Len(st.stack)
             f == st.stack[n]
         IN [st EXCEPT !.stack[n] =
                IF f.kind = "arr"
                THEN [f EXCEPT !.arr = Append(f.arr, v), !.phase = "after_value"]
                ELSE [f EXCEPT !.obj = MapInsert(f.obj, f.key, v),
                               !.phase = "after_value"]]

\* The closing bracket of the array or object being read: visit_seq / visit_map
\* return the Value, remaining_depth is incremented again.
Close(st) ==
    LET n == Len(st.stack)
        f == st.stack[n]
    IN Deliver([st EXCEPT !.stack = SubSeq(st.stack, 1, n - 1)],
               IF f.kind = "arr" THEN JArr(f.arr) ELSE JObj(f.obj))

SetPhase(st, ph) == [st EXCEPT !.stack[Len(st.stack)].phase = ph]

\* Deserializer::deserialize_any: the token starts a value.  Entering an array
\* or object decrements remaining_depth and fails when it reaches zero
\* (check_recursion!).
ParseValue(st, tok, i) ==
    CASE tok.k = "lit" -> Deliver(st, LitValue(tok.s))
      [] tok.k = "num" -> Deliver(st, JNum(tok.n))
      [] tok.k = "str" -> Deliver(st, JStr(tok.x))
      [] IsP(tok, "[") \/ IsP(tok, "{") ->
            IF RecursionLimit - Len(st.stack) - 1 = 0
            THEN ParseErr(st, "recursion limit exceeded", i)
            ELSE [st EXCEPT !.stack =
                    Append(@, Frame(IF IsP(tok, "[") THEN "arr" ELSE "obj"))]
      [] tok.k = "w" /\ BeginsLikeLiteral(tok.s) -> ParseErr(st, "expected ident", i)
      [] OTHER -> ParseErr(st, "expected value", i)

\* SeqAccess::next_element_seed on the token at position i.
ParseElem(st, f, tok, i) ==
    CASE f.phase = "first" ->
            IF IsP(tok, "]") THEN Close(st) ELSE ParseValue(st, tok, i)
      [] f.phase = "after_value" ->
            IF IsP(tok, ",") THEN SetPhase(st, "after_comma")
            ELSE IF IsP(tok, "]") THEN Close(st)
            ELSE ParseErr(st, "expected , or ]", i)
      [] OTHER ->
            IF IsP(tok, "]") THEN ParseErr(st, "trailing comma", i)
            ELSE ParseValue(st, tok, i)

\* MapAccess::next_key_seed / next_value_seed on the token at position i.
ParseMember(st, f, tok, i) ==
    CASE f.phase \in {"first", "after_comma"} ->
            IF IsP(tok, "}")
            THEN (IF f.phase = "first" THEN Close(st)
                  ELSE ParseErr(st, "trailing comma", i))
            ELSE IF tok.k = "str"
            THEN [st EXCEPT !.stack[Len(st.stack)] =
                    [f EXCEPT !.key = tok.x, !.phase = "after_key"]]
            ELSE ParseErr(st, "key must be a string", i)
      [] f.phase = "after_key" ->
            IF IsP(tok, ":") THEN SetPhase(st, "after_colon")
            ELSE ParseErr(st, "expected :", i)
      [] f.phase = "after_colon" -> ParseValue(st, tok, i)
      [] OTHER ->
            IF IsP(tok, ",") THEN SetPhase(st, "after_comma")
            ELSE IF IsP(tok, "}") THEN Close(st)
            ELSE ParseErr(st, "expected , or }", i)

\* The parser reads the token at position i.
ParseToken(st, tok, i) ==
    IF ~st.ok THEN st
    ELSE IF st.stack = <<>>
    THEN (IF st.phase = "start" THEN ParseValue(st, tok, i)
          ELSE ParseErr(st, "trailing characters", i))
    ELSE LET f == st.stack[Len(st.stack)] IN
         IF f.kind = "arr" THEN ParseElem(st, f, tok, i)
         ELSE ParseMember(st, f, tok, i)

RECURSIVE ParseRange(_, _, _, _)
\* The parser reads the tokens s[lo..hi] in order: the first half of the
\* range, then (once that state is computed) the second half.
ParseRange(st, s, lo, hi) ==
    IF lo > hi THEN st
    ELSE IF lo = hi THEN ParseToken(st, s[lo], lo)
    ELSE LET mid == (lo + hi) \div 2
             left == ParseRange(st, s, lo, mid)
         IN IF left.ok \in BOOLEAN THEN ParseRange(left, s, mid + 1, hi) ELSE left

\* Deserializer::end and the end-of-input errors.
ParseEnd(st, n) ==
    IF ~st.ok THEN st
    ELSE IF st.stack = <<>>
    THEN (IF st.phase = "end" THEN st
          ELSE ParseErr(st, "EOF while parsing a value", n))
    ELSE LET f == st.stack[Len(st.stack)] IN
         IF f.phase \in {"after_comma", "after_colon"}
         THEN ParseErr(st, "EOF while parsing a value", n)
         ELSE IF f.kind = "arr" THEN ParseErr(st, "EOF while parsing a list", n)
         ELSE ParseErr(st, "EOF while parsing an object", n)

\* Variant of from_str: the target type is a map, so that only an object
\* is accepted.
from_str_ObjectsOnly(s) ==
    LET r == ParseEnd(ParseRange(ParseStart, s, 1, Len(s)), Len(s)) IN
    IF r.ok /\ r.v.t # "obj" THEN ParseErr(r, "invalid type", 1) ELSE r

\* serde_json::from_str::<Value> (and from_slice, behind Response::json): the
\* result has ok and v on success, ok, code and pos on failure.
from_str(s) == ParseEnd(ParseRange(ParseStart, s, 1, Len(s)), Len(s))

\* Display of serde_json::Error: the diagnostic and where it was raised
\* (counted in tokens of the text).
DiagText(e) == <<W(e.code), W(" at line 1 column "), Num(e.pos)>>

\* ------------------------------------------------ JSON text of a value

RECURSIVE Encode(_)
RECURSIVE EncodeElems(_)
RECURSIVE EncodeMembers(_)

\* The JSON encoding of a value (what the API places in a body or in the
\* content field).
Encode(v) ==
    CASE v.t = "null" -> <<Lit("null")>>
      [] v.t = "bool" -> <<Lit(IF v.b THEN "true" ELSE "false")>>
      [] v.t = "num" -> <<Num(v.n)>>
      [] v.t = "str" -> <<Str(v.x)>>
      [] v.t = "arr" -> <<P("[")>> \o EncodeElems(v.a) \o <<P("]")>>
      [] OTHER -> <<P("{")>> \o EncodeMembers(v.o) \o <<P("}")>>

EncodeElems(a) ==
    IF a = <<>> THEN <<>>
    ELSE Encode(Head(a))
         \o (IF Len(a) > 1 THEN <<P(",")>> ELSE <<>>)
         \o EncodeElems(Tail(a))

EncodeMembers(o) ==
    IF o = {} THEN <<>>
    ELSE LET m == CHOOSE m \in o : TRUE IN
         <<Str(m[1]), P(":")>> \o Encode(m[2])
         \o (IF o \ {m} # {} THEN <<P(",")>> ELSE <<>>)
         \o EncodeMembers(o \ {m})

RECURSIVE Wrap(_, _)
\* v wrapped n times as {"k": v} (split in halves).
Wrap(v, n) ==
    IF n <= 0 THEN v
    ELSE IF n = 1 THEN JObj({<<Key("k"), v>>})
    ELSE LET inner == Wrap(v, n \div 2) IN
         IF inner.t # "" THEN Wrap(inner, n - (n \div 2)) ELSE inner

\* An object nested d levels deep: {} for d = 1, {"k": Nest(d-1)} above.
Nest(d) == Wrap(JObj({}), d - 1)

\* The JSON encoding of Nest(d): d - 1 times { "k" :, then { }, then d - 1
\* closing braces.
NestText(d) ==
    LET f == [i \in 1..(4 * d - 2) |->
                IF i <= 3 * (d - 1)
                THEN (CASE (i - 1) % 3 = 0 -> P("{")
                        [] (i - 1) % 3 = 1 -> Str(Key("k"))
                        [] OTHER -> P(":"))
                ELSE IF i = 3 * (d - 1) + 1 THEN P("{")
                ELSE P("}")]
    IN SubSeq(f, 1, 4 * d - 2)

\* ------------------------------------------------- Value indexing

\* Index<&str> for Value: the entry of an object, Null for a missing key or a
\* value that is no object.
IndexKey(v, key) ==
    IF v.t = "obj" /\ \E p \in v.o : p[1] = key
    THEN (CHOOSE p \in v.o : p[1] = key)[2]
    ELSE JNull

\* Index<usize> for Value (zero-based): the element of an array, Null when
\* out of range or when the value is no array.
IndexAt(v, n) ==
    IF v.t = "arr" /\ n < Len(v.a) THEN v.a[n + 1] ELSE JNull

\* Variant of as_str: any value is rendered as text (to_string()).
as_str_ToString(v) ==
    IF v.t = "str" THEN [some |-> TRUE, x |-> v.x] ELSE [some |-> TRUE, x |-> Encode(v)]

\* Value::as_str: Some only for a string.
as_str(v) ==
    IF v.t = "str" THEN [some |-> TRUE, x |-> v.x] ELSE [some |-> FALSE, x |-> <<>>]

\* json_res["choices"][0]["message"]["content"].as_str()
ContentOf(v) ==
    as_str(IndexKey(IndexKey(IndexAt(IndexKey(v, Key("choices")), 0),
                             Key("message")),
                    Key("content")))

\* --------------------------------------------------- lossy UTF-8 decoding


IsAscii(b) == b < 128
IsLead2(b) == b \in 194..223
IsCont(b) == b \in 128..191

\* U+FFFD REPLACEMENT CHARACTER
Replacement == Ch(65533)

RECURSIVE from_utf8_lossy(_)
\* String::from_utf8_lossy: valid sequences decode to their character, every
\* byte of an invalid sequence becomes U+FFFD.
from_utf8_lossy(b) ==
    IF b = <<>> THEN <<>>
    ELSE IF IsAscii(b[1]) THEN <<Ch(b[1])>> \o from_utf8_lossy(Tail(b))
    ELSE IF IsLead2(b[1]) /\ Len(b) >= 2 /\ IsCont(b[2])
    THEN <<Ch((b[1] - 192) * 64 + (b[2] - 128))>> \o from_utf8_lossy(Tail(Tail(b)))
    ELSE <<Replacement>> \o from_utf8_lossy(Tail(b))

\* ------------------------------------------------------------ the inputs

\* Longest byte string drawn over Bytes for the subprocess's streams.
MaxLen == 1

\* 'a' and 0xFF, which is valid nowhere in UTF-8.
Bytes == {97, 255}

RECURSIVE SeqsUpTo(_, _)
SeqsUpTo(S, n) ==
    IF n = 0 THEN {<<>>}
    ELSE LET shorter == SeqsUpTo(S, n - 1) IN
         shorter \cup {Append(q, e) : q \in shorter, e \in S}

\* What the subprocess may write to a stream: every string over Bytes up to
\* MaxLen, the two bytes of U+00E4, and a lead byte cut short.
ByteStrs == SeqsUpTo(Bytes, MaxLen) \cup {<<195, 164>>, <<195>>}

\* The command's arguments as the frontend may pass them.
Paths == {"a.pdf", "missing.pdf"}
DocTypes == {"rechnung", "Rechnung", ""}

\* MISTRAL_API_KEY in the process environment: not set, set to bytes that are
\* no valid Unicode, or set to a key.
Unset == "<unset>"
NotUnicode == "<not unicode>"
\* The .env file: absent (or without the variable), or giving a key.
NoFile == "<no file>"
EnvFiles == {NoFile, "key-file"}

\* What Command::output returns for a process that ran: exit status and the
\* two captured streams.
Outputs ==
    {[success |-> TRUE, stdout |-> b, stderr |-> <<>>] : b \in ByteStrs}
    \cup {[success |-> TRUE, stdout |-> <<97>>, stderr |-> <<97>>]}
    \cup {[success |-> FALSE, stdout |-> <<>>, stderr |-> b] : b \in ByteStrs}
    \cup {[success |-> FALSE, stdout |-> <<97>>, stderr |-> <<>>]}

\* HTTP status codes the API may answer with.
Statuses == {200, 299, 300, 404, 500}

\* Objects the model may place, JSON-encoded, in the content field.
ObjTotal == JObj({<<Key("total"), JNum(42)>>})
ObjNested ==
    JObj({<<Key("a"), JObj({<<Key("b"),
            JArr(<<JNum(1), JStr(Key("x")), JNull, JBool(TRUE)>>)>>})>>,
          <<Key("c"), JNum(0)>>})
ShallowObjects == {ObjTotal, JObj({}), ObjNested}
\* Nesting depths at the parser's limit: the deepest it accepts and one more.
DeepDepths == {RecursionLimit - 1, RecursionLimit}

\* Object samples as <<value, JSON text>>.
ObjectSamples ==
    {<<v, Encode(v)>> : v \in ShallowObjects}
    \cup {<<Nest(d), NestText(d)>> : d \in DeepDepths}

\* JSON values that are no objects.
NonObjects == {JNum(42), JStr(Key("x")), JArr(<<JNum(1)>>), JNull, JBool(TRUE)}

\* Texts that are not JSON.
InvalidTexts ==
    { <<W("not"), W("json")>>,
      <<>>,
      <<P("{"), Str(Key("total")), P(":")>>,
      Encode(ObjTotal) \o <<P("}")>>,
      <<P("["), Num(1), P(","), P("]")>> }

\* JSON with a key given twice: the later entry wins.
DupKeyText ==
    <<P("{"), Str(Key("a")), P(":"), Num(1), P(","),
      Str(Key("a")), P(":"), Num(2), P("}")>>

\* Content strings the model may answer with.
Contents ==
    {s[2] : s \in ObjectSamples} \cup {Encode(v) : v \in NonObjects}
    \cup InvalidTexts \cup {DupKeyText}

\* A chat-completions envelope whose first choice's message content is c.
Envelope(c) ==
    JObj({<<Key("choices"),
            JArr(<<JObj({<<Key("message"),
                           JObj({<<Key("role"), JStr(Key("assistant"))>>,
                                 <<Key("content"), c>>})>>})>>)>>})

\* Success bodies without a string content at choices[0].message.content.
NoContentEnvelopes ==
    { Envelope(JNum(5)),
      Envelope(JNull),
      JObj({<<Key("choices"), JArr(<<>>)>>}),
      JObj({}),
      JObj({<<Key("choices"), JArr(<<JObj({<<Key("message"), JObj({})>>})>>)>>}),
      JObj({<<Key("choices"), JObj({<<Key("0"), JObj({})>>})>>}),
      JArr(<<>>) }

\* Response bodies: envelopes with a content string, envelopes without, and
\* a body that is no JSON.
Bodies ==
    {Encode(Envelope(JStr(c))) : c \in Contents}
    \cup {Encode(e) : e \in NoContentEnvelopes}
    \cup {<<W("<html>")>>}

\* ------------------------------------------------------------- messages

\* include_str!: the two prompt files, fixed at compile time.
PROMPT_AUFTRAG == <<W("<PromptAuftrag.txt>")>>
PROMPT_RECHNUNG == <<W("<PromptRechnung.txt>")>>

\* Result<Value, String>
Ok(v) == [kind |-> "Ok", val |-> v]
Err(msg) == [kind |-> "Err", msg |-> msg]
Pending == [kind |-> "Pending"]

ApiKeyFehlt == <<W("API Key fehlt")>>
KeinInhalt == <<W("Kein Inhalt in der Antwort")>>

\* format!("Konnte pdftotext nicht ausfuehren: {}", e) for an io::Error e
\* (the source spells the verb with u-umlaut).
SpawnError == <<W("Konnte pdftotext nicht ausfuehren: "), W("<io error>")>>

\* Variant of PdfError: the message is built from the standard output.
PdfError_Stdout(out) ==
    <<W("Fehler beim Lesen der PDF (pdftotext): ")>> \o from_utf8_lossy(out.stdout)

\* format!("Fehler beim Lesen der PDF (pdftotext): {}", err_msg) with
\* err_msg = String::from_utf8_lossy(&output.stderr)
PdfError(out) ==
    <<W("Fehler beim Lesen der PDF (pdftotext): ")>> \o from_utf8_lossy(out.stderr)

\* println!("--- DEBUG TEXT START ---\n{}\n--- DEBUG TEXT END ---", text)
DebugText(text) ==
    <<W("--- DEBUG TEXT START ---\n")>> \o text \o <<W("\n--- DEBUG TEXT END ---\n")>>

\* Variant of BasePrompt: the tag is compared ignoring case.
BasePrompt_IgnoreCase(doc) ==
    IF doc \in {"rechnung", "Rechnung"} THEN PROMPT_RECHNUNG ELSE PROMPT_AUFTRAG

\* The template chosen by doc_type == "rechnung".
BasePrompt(doc) == IF doc = "rechnung" THEN PROMPT_RECHNUNG ELSE PROMPT_AUFTRAG

\* format!("{}\n\nDokument Inhalt:\n{}", base_prompt, extracted_text)
FullPrompt(doc, text) == BasePrompt(doc) \o <<W("\n\nDokument Inhalt:\n")>> \o text

\* json!({ "model": .., "messages": [{ "role": "user", "content": .. }],
\*         "response_format": { "type": "json_object" } })
RequestBody(prompt) ==
    JObj({ <<Key("model"), JStr(Key("mistral-large-latest"))>>,
           <<Key("messages"),
             JArr(<<JObj({<<Key("role"), JStr(Key("user"))>>,
                          <<Key("content"), JStr(prompt)>>})>>)>>,
           <<Key("response_format"),
             JObj({<<Key("type"), JStr(Key("json_object"))>>})>> })

\* The POST as it goes out: endpoint, bearer header, JSON body.
Request(key, b) ==
    [ url |-> "https://api.mistral.ai/v1/chat/completions",
      authorization |-> <<W("Bearer "), W(key)>>,
      json |-> b ]

\* Variant of is_success: no upper end of the range.
is_success_Loose(status) == status >= 200

\* StatusCode::is_success: 200..=299
is_success(status) == status >= 200 /\ status <= 299

\* Display of StatusCode: the code and its canonical reason.
StatusText(status) ==
    <<Num(status), W(" "),
      W(CASE status = 200 -> "OK"
          [] status = 404 -> "Not Found"
          [] status = 500 -> "Internal Server Error"
          [] status = 300 -> "Multiple Choices"
          [] OTHER -> "<unknown status code>")>>

\* format!("API Fehler: {}", res.status())
ApiError(status) == <<W("API Fehler: ")>> \o StatusText(status)

\* reqwest::Error::to_string() of a transport failure of send().
SendError == <<W("error sending request for url")>>

\* reqwest::Error::to_string() of a body that cannot be read or decoded.
DecodeError(e) == <<W("error decoding response body: ")>> \o DiagText(e)
BodyReadError == <<W("error decoding response body: "), W("<io error>")>>

\* Variant of ParseError: the diagnostic is left out of the message.
ParseError_NoDiag(e) == <<W("JSON Parse Fehler: ")>>

\* format!("JSON Parse Fehler: {}", e)
ParseError(e) == <<W("JSON Parse Fehler: ")>> \o DiagText(e)

\* ------------------------------------------------------ the environment

\* Variant of env_var: a variable that is not set reads as the empty string
\* (unwrap_or_default instead of map_err(..)?).
env_var_Default(e) ==
    IF e = NotUnicode
    THEN [ok |-> FALSE, val |-> ""]
    ELSE [ok |-> TRUE, val |-> IF e = Unset THEN "" ELSE e]

\* env::var("MISTRAL_API_KEY"): Err for a variable that is not set
\* (NotPresent) or not valid Unicode (NotUnicode).
env_var(e) ==
    IF e \in {Unset, NotUnicode}
    THEN [ok |-> FALSE, val |-> ""]
    ELSE [ok |-> TRUE, val |-> e]

\* dotenv(): a variable of the file is set in the process environment unless
\* env::var already yields it.
DotenvLoad(e, file) ==
    IF file # NoFile /\ ~env_var(e).ok THEN file ELSE e

\* --------------------------------------------------------------- state

VARIABLES
    procEnv,        \* MISTRAL_API_KEY in the process environment
    envFile,        \* MISTRAL_API_KEY in the .env file
    startEnv,       \* procEnv as the process was started
    hist,           \* per invocation: procEnv at invocation, and the key a
                    \* process that ran no other invocation would resolve
    pc,             \* the invocation's position in analyze_document
    path, doc_type, \* its arguments
    api_key, output, extracted_text, full_prompt, body, res, json_res,
    content_str,    \* its locals
    result,         \* what it returns
    spawned,        \* argument lists of the subprocesses it started
    printed,        \* what it wrote to standard output
    sent,           \* the HTTP requests it sent
    trace           \* the steps it executed, in order

environment == <<procEnv, envFile, startEnv>>
args == <<path, doc_type>>
locals == <<api_key, output, extracted_text, full_prompt, body, res, json_res,
            content_str>>
effects == <<spawned, printed, sent>>
vars == <<environment, hist, pc, args, locals, result, effects, trace>>

NoOutput == [success |-> FALSE, stdout |-> <<>>, stderr |-> <<>>]
NoResponse == [status |-> 0]
NoHist == [atInvoke |-> Unset, fresh |-> Unset]

\* No invocation in flight: nothing is kept from one invocation to the next
\* but the process environment.
Idle ==
    /\ pc = "idle"
    /\ path = "" /\ doc_type = ""
    /\ api_key = "" /\ output = NoOutput /\ extracted_text = <<>>
    /\ full_prompt = <<>> /\ body = JNull /\ res = NoResponse
    /\ json_res = JNull /\ content_str = <<>>
    /\ result = Pending
    /\ spawned = <<>> /\ printed = <<>> /\ sent = <<>>
    /\ trace = <<>>
    /\ hist = NoHist

Init ==
    /\ startEnv \in {Unset, NotUnicode, "key-env"}
    /\ procEnv = startEnv
    /\ envFile \in EnvFiles
    /\ Idle

\* ------------------------------------------------------------- actions

\* Variant of Abort: the error is recorded and the failed step is tried again.
Abort_Retry(msg) ==
    /\ result' = Err(msg)
    /\ pc' = pc

\* return Err(..) and the ? operator: the invocation ends with the error.
Abort(msg) ==
    /\ result' = Err(msg)
    /\ pc' = "done"

\* The step named is executed now.
Executes(step) == trace' = Append(trace, step)

\* The frontend invokes the command (line 12).
Invoke(p, d) ==
    /\ pc = "idle"
    /\ pc' = "dotenv"
    /\ path' = p
    /\ doc_type' = d
    /\ hist' = [hist EXCEPT !.atInvoke = procEnv]
    /\ UNCHANGED <<environment, locals, result, effects, trace>>

\* dotenv().ok() (line 13)
Dotenv ==
    /\ pc = "dotenv"
    /\ Executes("dotenv")
    /\ procEnv' = DotenvLoad(procEnv, envFile)
    /\ hist' = [hist EXCEPT !.fresh = DotenvLoad(startEnv, envFile)]
    /\ pc' = "env_var"
    /\ UNCHANGED <<envFile, startEnv, args, locals, result, effects>>

\* env::var("MISTRAL_API_KEY").map_err(|_| "API Key fehlt")? (line 14)
EnvVar ==
    /\ pc = "env_var"
    /\ Executes("env_var")
    /\ LET r == env_var(procEnv) IN
       IF r.ok
       THEN /\ api_key' = r.val
            /\ pc' = "spawn"
            /\ UNCHANGED result
       ELSE /\ Abort(ApiKeyFehlt)
            /\ UNCHANGED api_key
    /\ UNCHANGED <<environment, hist, args, output, extracted_text, full_prompt,
                   body, res, json_res, content_str, effects>>

\* Command::new("pdftotext").args(..).output() (lines 20-23): the process
\* cannot be started, or it runs to its end and its output is captured.
Spawn ==
    /\ pc = "spawn"
    /\ Executes("spawn")
    /\ \/ /\ Abort(SpawnError)
          /\ UNCHANGED <<output, spawned>>
       \/ /\ \E o \in Outputs : output' = o
          /\ spawned' = Append(spawned, <<"-layout", "-enc", "UTF-8", path, "-">>)
          /\ pc' = "exit_check"
          /\ UNCHANGED result
    /\ UNCHANGED <<environment, hist, args, api_key, extracted_text, full_prompt,
                   body, res, json_res, content_str, printed, sent>>

\* if !output.status.success() { return Err(..) } and the decoding of the
\* standard output (lines 25-33)
ExitCheck ==
    /\ pc = "exit_check"
    /\ Executes("exit_check")
    /\ IF ~output.success
       THEN /\ Abort(PdfError(output))
            /\ UNCHANGED extracted_text
       ELSE /\ extracted_text' = from_utf8_lossy(output.stdout)
            /\ pc' = "println"
            /\ UNCHANGED result
    /\ UNCHANGED <<environment, hist, args, api_key, output, full_prompt, body,
                   res, json_res, content_str, effects>>

\* println!(..) (lines 36-39)
Println ==
    /\ pc = "println"
    /\ Executes("println")
    /\ printed' = printed \o DebugText(extracted_text)
    /\ pc' = "build"
    /\ UNCHANGED <<environment, hist, args, locals, result, spawned, sent>>

\* Template choice, prompt and request body (lines 42-58)
BuildPrompt ==
    /\ pc = "build"
    /\ Executes("build")
    /\ full_prompt' = FullPrompt(doc_type, extracted_text)
    /\ body' = RequestBody(full_prompt')
    /\ pc' = "send"
    /\ UNCHANGED <<environment, hist, args, api_key, output, extracted_text,
                   res, json_res, content_str, result, effects>>

\* client.post(..).header(..).json(&body).send().await.map_err(..)?
\* (lines 61-67): the request goes out; the transport fails, or a response
\* with some status arrives.
Send ==
    /\ pc = "send"
    /\ Executes("send")
    /\ sent' = Append(sent, Request(api_key, body))
    /\ \/ /\ Abort(SendError)
          /\ UNCHANGED res
       \/ /\ \E st \in Statuses : res' = [status |-> st]
          /\ pc' = "status_check"
          /\ UNCHANGED result
    /\ UNCHANGED <<environment, hist, args, api_key, output, extracted_text,
                   full_prompt, body, json_res, content_str, spawned, printed>>

\* if !res.status().is_success() { return Err(..) } (lines 69-71)
StatusCheck ==
    /\ pc = "status_check"
    /\ Executes("status_check")
    /\ IF ~is_success(res.status)
       THEN Abort(ApiError(res.status))
       ELSE pc' = "json" /\ UNCHANGED result
    /\ UNCHANGED <<environment, hist, args, locals, effects>>

\* res.json().await.map_err(..)? (line 73): the body is read and decoded;
\* res is consumed.
Json ==
    /\ pc = "json"
    /\ Executes("json")
    /\ res' = NoResponse
    /\ \/ /\ Abort(BodyReadError)
          /\ UNCHANGED json_res
       \/ \E b \in Bodies :
            LET r == from_str(b) IN
            IF r.ok
            THEN /\ json_res' = r.v
                 /\ pc' = "content"
                 /\ UNCHANGED result
            ELSE /\ Abort(DecodeError(r))
                 /\ UNCHANGED json_res
    /\ UNCHANGED <<environment, hist, args, api_key, output, extracted_text,
                   full_prompt, body, content_str, effects>>

\* json_res["choices"][0]["message"]["content"].as_str().ok_or(..)?
\* (lines 75-77)
Content ==
    /\ pc = "content"
    /\ Executes("content")
    /\ LET c == ContentOf(json_res) IN
       IF c.some
       THEN /\ content_str' = c.x
            /\ pc' = "from_str"
            /\ UNCHANGED result
       ELSE /\ Abort(KeinInhalt)
            /\ UNCHANGED content_str
    /\ UNCHANGED <<environment, hist, args, api_key, output, extracted_text,
                   full_prompt, body, res, json_res, effects>>

\* serde_json::from_str(content_str).map_err(..)? and Ok(result_obj)
\* (lines 80-83)
FromStr ==
    /\ pc = "from_str"
    /\ Executes("from_str")
    /\ LET r == from_str(content_str) IN
       IF r.ok
       THEN result' = Ok(r.v) /\ pc' = "done"
       ELSE Abort(ParseError(r))
    /\ UNCHANGED <<environment, hist, args, locals, effects>>

\* The result goes back to the frontend and the invocation's frame is
\* dropped (line 84).
Return ==
    /\ pc = "done"
    /\ pc' = "idle"
    /\ path' = "" /\ doc_type' = ""
    /\ api_key' = "" /\ output' = NoOutput /\ extracted_text' = <<>>
    /\ full_prompt' = <<>> /\ body' = JNull /\ res' = NoResponse
    /\ json_res' = JNull /\ content_str' = <<>>
    /\ result' = Pending
    /\ spawned' = <<>> /\ printed' = <<>> /\ sent' = <<>>
    /\ trace' = <<>>
    /\ hist' = NoHist
    /\ UNCHANGED environment

\* Another invocation of the command, in flight on the same runtime,
\* executes its dotenv().ok() (line 13): the one statement of
\* analyze_document that writes state shared between invocations.
OtherDotenv ==
    /\ procEnv' = DotenvLoad(procEnv, envFile)
    /\ procEnv' # procEnv
    /\ UNCHANGED <<envFile, startEnv, hist, pc, args, locals, result, effects, trace>>

\* The user creates, edits or removes the .env file while the application
\* runs.
EditEnvFile ==
    /\ envFile' \in EnvFiles \ {envFile}
    /\ UNCHANGED <<procEnv, startEnv, hist, pc, args, locals, result, effects, trace>>

Next ==
    \/ \E p \in Paths, d \in DocTypes : Invoke(p, d)
    \/ Dotenv
    \/ EnvVar
    \/ Spawn
    \/ ExitCheck
    \/ Println
    \/ BuildPrompt
    \/ Send
    \/ StatusCheck
    \/ Json
    \/ Content
    \/ FromStr
    \/ Return
    \/ OtherDotenv
    \/ EditEnvFile

Spec == Init /\ [][Next]_vars

\* ---------------------------------------------------------- properties

\* The invocation in flight has executed the step.
Did(step) == \E i \in DOMAIN trace : trace[i] = step

\* The steps of analyze_document in program order.
Order ==
    <<"dotenv", "env_var", "spawn", "exit_check", "println", "build", "send",
      "status_check", "json", "content", "from_str">>

\* C1, as stated: an invocation that finds MISTRAL_API_KEY unset in the
\* process environment when it is invoked returns an error, starts no
\* subprocess and sends no request.
C1_UnsetAtInvocation ==
    (pc # "idle" /\ hist.atInvoke = Unset) =>
        /\ spawned = <<>>
        /\ sent = <<>>
        /\ (pc = "done" => result.kind = "Err")

\* C1, amended: if MISTRAL_API_KEY is unset when env::var reads it, that is
\* after the invocation's own load of the .env file, the invocation returns
\* the error "API Key fehlt", and an invocation that returns this error has
\* started no subprocess and sent no request.
C1_UnsetWhenRead ==
    /\ [][ (pc = "env_var" /\ procEnv = Unset /\ trace' # trace) =>
              (pc' = "done" /\ result' = Err(ApiKeyFehlt)
               /\ spawned' = <<>> /\ sent' = <<>>) ]_vars
    /\ []( (pc = "done" /\ result = Err(ApiKeyFehlt)) =>
              (spawned = <<>> /\ sent = <<>> /\ ~Did("spawn") /\ ~Did("send")) )

\* C1 happens: an invocation that found the variable unset has returned
\* "API Key fehlt" right after the credential step.
C1_Witness ==
    /\ pc = "done"
    /\ hist.atInvoke = Unset
    /\ result = Err(ApiKeyFehlt)
    /\ trace = <<"dotenv", "env_var">>

\* C2: if the subprocess exits with nonzero status, the invocation returns an
\* error whose message contains the standard-error text (decoded lossily:
\* ASCII and valid multi-byte characters as they are), and sends no request.
C2_NonzeroExit ==
    (Did("exit_check") /\ ~output.success) =>
        /\ pc = "done"
        /\ result.kind = "Err"
        /\ Contains(result.msg, from_utf8_lossy(output.stderr))
        /\ \A i \in DOMAIN output.stderr :
              IsAscii(output.stderr[i]) => Contains(result.msg, <<Ch(output.stderr[i])>>)
        /\ (output.stderr = <<195, 164>> => Contains(result.msg, <<Ch(228)>>))
        /\ sent = <<>>
        /\ ~Did("send")

\* C2 happens: the subprocess failed on a path with text on standard error
\* and the invocation has ended.
C2_Witness ==
    /\ pc = "done"
    /\ Did("exit_check")
    /\ ~output.success
    /\ output.stderr = <<97>>
    /\ path = "missing.pdf"

\* C3: if the API answers with a non-success status, the invocation returns
\* an error whose message contains the status code, and neither the body nor
\* a content field is parsed.
C3_NonSuccessStatus ==
    (Did("status_check") /\ res # NoResponse
       /\ (res.status < 200 \/ res.status > 299)) =>
        /\ pc = "done"
        /\ result.kind = "Err"
        /\ Contains(result.msg, <<Num(res.status)>>)
        /\ ~Did("json") /\ ~Did("content") /\ ~Did("from_str")
        /\ json_res = JNull
        /\ content_str = <<>>

\* C3 happens: the API answered 404 and the invocation has ended.
C3_Witness ==
    /\ pc = "done"
    /\ Did("status_check")
    /\ res = [status |-> 404]

\* C4: the request sent carries exactly one message, of role user, whose
\* content is T, the separator and the extracted text, with T the invoice
\* template for doc_type "rechnung" and the order template for every other
\* doc_type; the other template does not occur in it.
C4_PromptAssembly ==
    Did("send") =>
        /\ Len(sent) = 1
        /\ LET msgs == IndexKey(sent[1].json, Key("messages"))
               T == IF doc_type = "rechnung" THEN PROMPT_RECHNUNG ELSE PROMPT_AUFTRAG
               U == IF doc_type = "rechnung" THEN PROMPT_AUFTRAG ELSE PROMPT_RECHNUNG
           IN /\ msgs.t = "arr"
              /\ Len(msgs.a) = 1
              /\ IndexKey(msgs.a[1], Key("role")) = JStr(Key("user"))
              /\ IndexKey(msgs.a[1], Key("content")) =
                    JStr(T \o <<W("\n\nDokument Inhalt:\n")>> \o extracted_text)
              /\ ~Contains(IndexKey(msgs.a[1], Key("content")).x, U)

\* C4 happens: a request was sent for a doc_type that differs from the
\* invoice tag only in case, with some extracted text.
C4_Witness ==
    /\ Did("send")
    /\ doc_type = "Rechnung"
    /\ extracted_text # <<>>

\* C5, as stated: whenever the content string is the JSON encoding of an
\* object v, the invocation returns Ok(v).
C5_RoundTrip ==
    \A smp \in ObjectSamples :
        (pc = "done" /\ Did("from_str") /\ content_str = smp[2]) =>
            result = Ok(smp[1])

\* The diagnostic serde_json gives for each text of InvalidTexts.
ExpectedDiag(t) ==
    CASE t = <<W("not"), W("json")>> -> "expected ident"
      [] t = <<>> -> "EOF while parsing a value"
      [] t = <<P("{"), Str(Key("total")), P(":")>> -> "EOF while parsing a value"
      [] t = <<P("["), Num(1), P(","), P("]")>> -> "trailing comma"
      [] OTHER -> "trailing characters"

\* C6: if the content string is not JSON, the invocation returns an error
\* that starts with "JSON Parse Fehler: " and carries the parser's
\* diagnostic, never a success.
C6_InvalidContent ==
    \A t \in InvalidTexts :
        (Did("from_str") /\ content_str = t) =>
            /\ pc = "done"
            /\ result.kind = "Err"
            /\ StartsWith(result.msg, <<W("JSON Parse Fehler: ")>>)
            /\ Contains(result.msg, <<W(ExpectedDiag(t))>>)

\* C6 happens: the content was the text: not json, and the invocation has
\* ended.
C6_Witness ==
    /\ pc = "done"
    /\ Did("from_str")
    /\ content_str = <<W("not"), W("json")>>

\* The body has a string at choices[0].message.content.
HasStringContent(v) ==
    /\ v.t = "obj"
    /\ \E p \in v.o :
          /\ p[1] = Key("choices")
          /\ p[2].t = "arr"
          /\ Len(p[2].a) >= 1
          /\ p[2].a[1].t = "obj"
          /\ \E q \in p[2].a[1].o :
                /\ q[1] = Key("message")
                /\ q[2].t = "obj"
                /\ \E r \in q[2].o : r[1] = Key("content") /\ r[2].t = "str"

\* C7: if the decoded body has no string at choices[0].message.content, the
\* invocation fails with "Kein Inhalt in der Antwort" and the content is
\* never parsed.
C7_MissingContent ==
    (Did("content") /\ ~HasStringContent(json_res)) =>
        /\ pc = "done"
        /\ result = Err(KeinInhalt)
        /\ ~Did("from_str")
        /\ content_str = <<>>

\* C7 happens: the body had an empty list of choices and the invocation has
\* ended.
C7_Witness ==
    /\ pc = "done"
    /\ Did("content")
    /\ json_res = JObj({<<Key("choices"), JArr(<<>>)>>})

\* C8, as stated: every value returned as a success is a JSON object.
C8_OnlyObjects ==
    (pc = "done" /\ result.kind = "Ok") => result.val.t = "obj"

\* C8, amended: every value returned as a success is the JSON value of any
\* type that the content string parses to; a content string that encodes a
\* number, string, array, boolean or null is returned as a success.
C8_AnyJsonValue ==
    /\ (pc = "done" /\ result.kind = "Ok") =>
          /\ Did("from_str")
          /\ result.val.t \in {"null", "bool", "num", "str", "arr", "obj"}
    /\ \A v \in NonObjects :
          (pc = "done" /\ Did("from_str") /\ content_str = Encode(v)) =>
              result = Ok(v)

\* C8 happens: the invocation has returned the number 42 as a success.
C8_Witness ==
    /\ pc = "done"
    /\ result = Ok(JNum(42))

\* C9, as stated: the credential an invocation resolves is the one a process
\* that ran no earlier or concurrent invocation would resolve from its start
\* environment and the .env file as the invocation loads it.
C9_NoCarriedState ==
    Did("env_var") =>
        IF env_var(hist.fresh).ok
        THEN api_key = hist.fresh
        ELSE result = Err(ApiKeyFehlt)

\* The step at which each error message is produced.
FailedStep(msg) ==
    CASE msg = ApiKeyFehlt -> "env_var"
      [] msg = SpawnError -> "spawn"
      [] StartsWith(msg, <<W("Fehler beim Lesen der PDF (pdftotext): ")>>) -> "exit_check"
      [] msg = SendError -> "send"
      [] StartsWith(msg, <<W("API Fehler: ")>>) -> "status_check"
      [] StartsWith(msg, <<W("error decoding response body: ")>>) -> "json"
      [] msg = KeinInhalt -> "content"
      [] StartsWith(msg, <<W("JSON Parse Fehler: ")>>) -> "from_str"
      [] OTHER -> "<none>"

\* C10: the steps executed are a prefix of the program order; at most one
\* subprocess is started and at most one request sent, each by its step; the
\* extracted text is printed by the print step; a success has executed every
\* step; an error ends the invocation at the step that failed, and no step
\* runs while an error is recorded.
C10_FixedOrder ==
    /\ Len(trace) <= Len(Order)
    /\ \A i \in DOMAIN trace : trace[i] = Order[i]
    /\ Len(spawned) <= 1 /\ (spawned # <<>> => Did("spawn"))
    /\ Len(sent) <= 1 /\ (sent # <<>> <=> Did("send"))
    /\ (printed # <<>> <=> Did("println"))
    /\ (Did("println") => printed = DebugText(extracted_text))
    /\ (pc \notin {"idle", "done"} =>
          /\ result = Pending
          /\ Len(trace) < Len(Order)
          /\ pc = Order[Len(trace) + 1])
    /\ (pc = "done" /\ result.kind = "Ok" => trace = Order)
    /\ (pc = "done" /\ result.kind = "Err" =>
          /\ trace # <<>>
          /\ trace[Len(trace)] = FailedStep(result.msg))
    /\ (pc = "done" => result # Pending)

\* C10 happens: the transport of the POST failed and the invocation has
\* ended at the send step.
C10_Witness ==
    /\ pc = "done"
    /\ result = Err(SendError)
    /\ trace = SubSeq(Order, 1, 7)
    /\ Len(sent) = 1
====
